---------------------------- MODULE Spec2Model ----------------------------
(***************************************************************************)
(* Model of the macro-calendar notifier (src/macro_copilot_mvp.py,         *)
(* src/server.py): the value parser, the interpretation engine, the dedup  *)
(* key, the poll cycle with its persisted snapshots, and the scheduler.    *)
(*                                                                         *)
(* Strings are sequences of one-character strings, so that substring       *)
(* tests, case folding, stripping and suffix tests are computed as the     *)
(* Python code computes them.  Python's None is the one-element sequence   *)
(* None, which is no string of characters.  A float is a decimal           *)
(* [m |-> mantissa, e |-> exponent] standing for m * 10^e, normalised so   *)
(* that equal numbers are equal records; binary rounding of doubles is     *)
(* not modelled.                                                           *)
(***************************************************************************)
EXTENDS Integers, Sequences, FiniteSets, TLC

VARIABLES
    started,          \* server.py: _started
    botThreads,       \* number of bot threads spawned by on_startup
    schedulers,       \* number of BackgroundSchedulers started by main()
    jobs,             \* per executor worker: the activation of poll_and_notify
    subscribersFile,  \* subscribers.json: list of chat ids
    processedFile,    \* processed_events.json: set of dedup keys
    sent,             \* messages handed to the bot transport, per key and chat:
                      \* 0, 1, or 2 for "more than once"
    configFile,       \* config.json: a dict, {} while the file is missing
    job_interval,     \* seconds of the poll job's IntervalTrigger, 0: no job
    cmd,              \* the activation of config_cmd on the bot's event loop
    pollCfg,          \* the get_config call of a poll cycle (scheduler thread)
    fn,               \* pure-function harness: the function under evaluation
    arg,              \* its argument
    ret               \* its result

vars == <<started, botThreads, schedulers, jobs,
          subscribersFile, processedFile, sent,
          configFile, job_interval, cmd, pollCfg, fn, arg, ret>>

cfgVars == <<configFile, job_interval, cmd, pollCfg>>

sysVars == <<started, botThreads, schedulers, jobs,
             subscribersFile, processedFile, sent,
             configFile, job_interval, cmd, pollCfg>>

(***************************************************************************)
(* Strings                                                                 *)
(***************************************************************************)
None == <<"<None>">>

Digits == {"0", "1", "2", "3", "4", "5", "6", "7", "8", "9"}

DigitVal == ("0" :> 0) @@ ("1" :> 1) @@ ("2" :> 2) @@ ("3" :> 3) @@ ("4" :> 4)
            @@ ("5" :> 5) @@ ("6" :> 6) @@ ("7" :> 7) @@ ("8" :> 8) @@ ("9" :> 9)

LowerOf == ("A" :> "a") @@ ("B" :> "b") @@ ("C" :> "c") @@ ("D" :> "d") @@ ("E" :> "e")
           @@ ("F" :> "f") @@ ("G" :> "g") @@ ("H" :> "h") @@ ("I" :> "i") @@ ("J" :> "j")
           @@ ("K" :> "k") @@ ("L" :> "l") @@ ("M" :> "m") @@ ("N" :> "n") @@ ("O" :> "o")
           @@ ("P" :> "p") @@ ("Q" :> "q") @@ ("R" :> "r") @@ ("S" :> "s") @@ ("T" :> "t")
           @@ ("U" :> "u") @@ ("V" :> "v") @@ ("W" :> "w") @@ ("X" :> "x") @@ ("Y" :> "y")
           @@ ("Z" :> "z")

UpperOf == [c \in {LowerOf[u] : u \in DOMAIN LowerOf} |->
              CHOOSE u \in DOMAIN LowerOf : LowerOf[u] = c]

\* str.lower()
Lower(s) == [i \in 1..Len(s) |-> IF s[i] \in DOMAIN LowerOf THEN LowerOf[s[i]] ELSE s[i]]

\* str.upper()
Upper(s) == [i \in 1..Len(s) |-> IF s[i] \in DOMAIN UpperOf THEN UpperOf[s[i]] ELSE s[i]]

\* k in s (substring test)
Contains(k, s) == \E i \in 1..(Len(s) - Len(k) + 1) : SubSeq(s, i, i + Len(k) - 1) = k

\* s.endswith(c) for a one-character suffix
EndsWith(s, c) == Len(s) > 0 /\ s[Len(s)] = c

\* s[:-1]
DropLast(s) == SubSeq(s, 1, Len(s) - 1)

\* s.replace(c, "") for a one-character c
RECURSIVE Remove(_, _)
Remove(s, c) ==
    IF s = <<>> THEN <<>>
    ELSE IF Head(s) = c THEN Remove(Tail(s), c)
    ELSE <<Head(s)>> \o Remove(Tail(s), c)

\* s.strip()
Strip(s) ==
    LET nonws == {i \in 1..Len(s) : s[i] # " "}
    IN  IF nonws = {} THEN <<>>
        ELSE SubSeq(s, CHOOSE i \in nonws : \A j \in nonws : i <= j,
                       CHOOSE i \in nonws : \A j \in nonws : i >= j)

(***************************************************************************)
(* Decimal numbers                                                         *)
(***************************************************************************)
NoNumber == [m |-> 0, e |-> 999]     \* parse_number's None

RECURSIVE Pow10(_)
Pow10(n) == IF n <= 0 THEN 1 ELSE 10 * Pow10(n - 1)

RECURSIVE Normalize(_)
Normalize(x) ==
    IF x.m = 0 THEN [m |-> 0, e |-> 0]
    ELSE IF x.m % 10 = 0 THEN Normalize([m |-> x.m \div 10, e |-> x.e + 1])
    ELSE x

\* int() of a run of digits
RECURSIVE IntOf(_)
IntOf(ds) == IF ds = <<>> THEN 0 ELSE 10 * IntOf(DropLast(ds)) + DigitVal[ds[Len(ds)]]

\* x - y for decimals, as a decimal
Minus(x, y) ==
    LET e == IF x.e < y.e THEN x.e ELSE y.e
    IN  Normalize([m |-> x.m * Pow10(x.e - e) - y.m * Pow10(y.e - e), e |-> e])

\* sign of a decimal
Sign(x) == IF x.m > 0 THEN 1 ELSE IF x.m < 0 THEN -1 ELSE 0

(***************************************************************************)
(* parse_number                                                            *)
(***************************************************************************)
\* end of the run of digits that starts at position i
RECURSIVE DigitRunEnd(_, _)
DigitRunEnd(s, i) ==
    IF i + 1 <= Len(s) /\ s[i + 1] \in Digits THEN DigitRunEnd(s, i + 1) ELSE i

\* _value_num_pat.search(s): the leftmost match of -?\d+(?:\.\d+)?,
\* as [neg, int, frac], or [found |-> FALSE]
NumSearch(s) ==
    LET ds == {i \in 1..Len(s) : s[i] \in Digits}
    IN  IF ds = {} THEN [found |-> FALSE, neg |-> FALSE, int |-> <<>>, frac |-> <<>>]
        ELSE LET d  == CHOOSE i \in ds : \A j \in ds : i <= j
                 ie == DigitRunEnd(s, d)
                 hasFrac == ie + 2 <= Len(s) /\ s[ie + 1] = "." /\ s[ie + 2] \in Digits
                 fe == IF hasFrac THEN DigitRunEnd(s, ie + 2) ELSE ie
             IN  [found |-> TRUE,
                  neg   |-> d > 1 /\ s[d - 1] = "-",
                  int   |-> SubSeq(s, d, ie),
                  frac  |-> IF hasFrac THEN SubSeq(s, ie + 2, fe) ELSE <<>>]

KMult == 3     \* 1_000.0 as a power of ten
MMult == 6     \* 1_000_000.0 as a power of ten

\* parse_number with a case-sensitive test for the K suffix
Mut_parse_number(v) ==
    IF v = None THEN NoNumber
    ELSE LET s0 == Remove(Strip(v), ",")
             k  == EndsWith(s0, "K")
             s1 == IF k THEN DropLast(s0) ELSE s0
             m  == EndsWith(Upper(s1), "M")
             s2 == IF m THEN DropLast(s1) ELSE s1
             mult == IF m THEN MMult ELSE IF k THEN KMult ELSE 0
             r  == NumSearch(s2)
         IN  IF ~r.found THEN NoNumber
             ELSE Normalize([m |-> (IF r.neg THEN -1 ELSE 1) * IntOf(r.int \o r.frac),
                             e |-> mult - Len(r.frac)])

parse_number(v) ==
    IF v = None THEN NoNumber
    ELSE LET s0 == Remove(Strip(v), ",")
             k  == EndsWith(Upper(s0), "K")
             s1 == IF k THEN DropLast(s0) ELSE s0
             m  == EndsWith(Upper(s1), "M")
             s2 == IF m THEN DropLast(s1) ELSE s1
             mult == IF m THEN MMult ELSE IF k THEN KMult ELSE 0
             r  == NumSearch(s2)
         IN  IF ~r.found THEN NoNumber
             ELSE Normalize([m |-> (IF r.neg THEN -1 ELSE 1) * IntOf(r.int \o r.frac),
                             e |-> mult - Len(r.frac)])


(***************************************************************************)
(* Bounds of the model                                                     *)
(***************************************************************************)
MaxRows    == 2     \* rows in one calendar response
MaxDue     == 2     \* run times found due at one wake-up of the scheduler
MaxWorkers == 2     \* threads of the scheduler's executor
MaxThreads == 2     \* bot threads that can be counted

Chats   == {101, 102}                       \* chat ids
Keys    == {"US|CPI|d1", "US|GDP|d1"}       \* dedup keys of the rows
Workers == 1..MaxWorkers

(***************************************************************************)
(* The poll cycle: poll_and_notify                                         *)
(***************************************************************************)
\* Time is counted in minutes from the datetime.now() of the cycle at hand
\* (line 231): the cycle compares a release time with nothing else.
CycleNow == 0

OneMinute == 1     \* timedelta(minutes=1)

\* release times: before the cycle's now, at it, one minute and two minutes
\* after it
ReleaseTimes == {CycleNow - 1, CycleNow, CycleNow + OneMinute, CycleNow + OneMinute + 1}

\* the values of the Actual field that the cycle tells apart
ActualValues == {None, <<>>, <<" ">>, <<"1", ".", "5">>}

\* a normalised calendar row, as far as the cycle looks at it
Rows == [id_key : Keys, actual : ActualValues, release_time_utc : ReleaseTimes]

\* no row has passed the three tests of the loop in this iteration
NoRow == [id_key |-> "", actual |-> None, release_time_utc |-> 0]

\* the locals of one activation: now, the rows left, the row ev that the
\* current iteration interprets and sends (NoRow when it skipped its row),
\* how many chats of subs the fan-out for ev has reached, processed, subs;
\* last is how the worker's previous activation ended
IdleJob == [pc |-> "idle", now |-> 0, left |-> 0, ev |-> NoRow, reached |-> 0,
            processed |-> {}, subs |-> <<>>, last |-> "none"]

\* not ev.actual or str(ev.actual).strip() == ""
ActualMissing(ev) == ev.actual = None \/ ev.actual = <<>> \/ Strip(ev.actual) = <<>>

\* the future test with two minutes of slack instead of one
MutInFuture(ev, now) == ev.release_time_utc > now + OneMinute + OneMinute

\* ev.release_time_utc > now + timedelta(minutes=1)
InFuture(ev, now) == ev.release_time_utc > now + OneMinute

\* the three "continue" tests of the loop
Skipped(ev, j) == ActualMissing(ev) \/ InFuture(ev, j.now) \/ ev.id_key \in j.processed

\* DEFAULT_CONFIG, as far as /config's numeric settings go (country,
\* high_impact_only and local_tz are stored and merged in the same way)
DEFAULT_CONFIG == [poll_every_seconds |-> 60, window_minutes |-> 6]

EmptyDict == <<>>     \* {}

\* {**a, **b}
Merge(a, b) == b @@ a

\* config_cmd at rest; cfg and args are those of the last call, last tells
\* how it ended
IdleCmd == [pc |-> "idle", cfg |-> EmptyDict, args |-> <<>>, last |-> "none"]

\* no get_config of a poll cycle under way
IdlePollCfg == [pc |-> "idle", cfg |-> EmptyDict]

SysInit ==
    /\ configFile = EmptyDict
    /\ job_interval = 0
    /\ cmd = IdleCmd
    /\ pollCfg = IdlePollCfg
    /\ started = FALSE
    /\ botThreads = 0
    /\ schedulers = 0
    /\ jobs = [w \in Workers |-> IdleJob]
    /\ subscribersFile = <<>>
    /\ processedFile = {}
    /\ sent = [k \in Keys |-> [c \in Chats |-> 0]]

\* lines 230-233: the configuration is read and the cycle's time is taken
PollStart(w) ==
    /\ jobs[w].pc = "start"
    /\ configFile' = Merge(DEFAULT_CONFIG, configFile)
    /\ jobs' = [jobs EXCEPT ![w].pc = "fetch", ![w].now = CycleNow]
    /\ UNCHANGED <<started, botThreads, schedulers,
                   subscribersFile, processedFile, sent>>

\* lines 234-235, 240-242: the fetch returns rows (at most MaxRows, examined
\* one by one in the loop), the two snapshots are loaded, and the cycle
\* returns when there is no subscriber
PollFetch(w) ==
    /\ jobs[w].pc = "fetch"
    /\ \E n \in 0..MaxRows :
         jobs' = [jobs EXCEPT ![w] =
                    IF subscribersFile = <<>>
                    THEN [IdleJob EXCEPT !.last = "no_subs"]
                    ELSE [@ EXCEPT !.pc = "loop", !.left = n,
                                   !.processed = processedFile,
                                   !.subs = subscribersFile]]
    /\ UNCHANGED <<started, botThreads, schedulers,
                   subscribersFile, processedFile, sent>>

\* the fetch raises and the cycle writes its (not yet loaded) processed set
\* back before it returns
MutPollFetchError(w) ==
    /\ jobs[w].pc = "fetch"
    /\ jobs' = [jobs EXCEPT ![w] = [IdleJob EXCEPT !.last = "fetch_error"]]
    /\ processedFile' = jobs[w].processed
    /\ UNCHANGED <<started, botThreads, schedulers, subscribersFile, sent>>

\* lines 236-238: the fetch raises, the cycle prints and returns
PollFetchError(w) ==
    /\ jobs[w].pc = "fetch"
    /\ jobs' = [jobs EXCEPT ![w] = [IdleJob EXCEPT !.last = "fetch_error"]]
    /\ UNCHANGED <<started, botThreads, schedulers,
                   subscribersFile, processedFile, sent>>

\* lines 245-247: the next row is not eligible or already processed
PollSkip(w) ==
    /\ jobs[w].pc = "loop"
    /\ jobs[w].left > 0
    /\ {ev \in Rows : Skipped(ev, jobs[w])} # {}
    /\ jobs' = [jobs EXCEPT ![w].left = @ - 1, ![w].ev = NoRow, ![w].reached = 0]
    /\ UNCHANGED <<started, botThreads, schedulers,
                   subscribersFile, processedFile, sent>>

\* the count of messages after one more, "more than once" staying so
OneMore(n) == IF n >= 2 THEN 2 ELSE n + 1

\* sent after the first n chats of subs were handed the message for key k
\* (subs holds no chat id twice: subscribe appends only an absent id)
SentAfter(k, subs, n) ==
    [kk \in Keys |-> [c \in Chats |->
        IF kk = k /\ \E i \in 1..n : subs[i] = c
        THEN OneMore(sent[kk][c])
        ELSE sent[kk][c]]]

\* the fan-out with processed.add outside the try: the key is added even
\* when a send raised
Mut_FanOut(w, ev, n) ==
    /\ sent' = SentAfter(ev.id_key, jobs[w].subs, n)
    /\ jobs' = [jobs EXCEPT ![w].left = @ - 1,
                            ![w].ev = ev,
                            ![w].reached = n,
                            ![w].processed = @ \cup {ev.id_key}]

\* the fan-out of lines 249-256: the first n create_task calls return; when
\* n < Len(subs) the next one raises and the key is not added
FanOut(w, ev, n) ==
    /\ sent' = SentAfter(ev.id_key, jobs[w].subs, n)
    /\ jobs' = [jobs EXCEPT ![w].left = @ - 1,
                            ![w].ev = ev,
                            ![w].reached = n,
                            ![w].processed = IF n = Len(jobs[w].subs)
                                             THEN @ \cup {ev.id_key} ELSE @]

\* lines 249-254: every send of the fan-out succeeds
PollNotify(w) ==
    /\ jobs[w].pc = "loop"
    /\ jobs[w].left > 0
    /\ \E ev \in Rows :
         /\ ~Skipped(ev, jobs[w])
         /\ FanOut(w, ev, Len(jobs[w].subs))
    /\ UNCHANGED <<started, botThreads, schedulers,
                   subscribersFile, processedFile>>

\* lines 251-256: a send raises after n chats
PollNotifyError(w) ==
    /\ jobs[w].pc = "loop"
    /\ jobs[w].left > 0
    /\ \E ev \in Rows :
         /\ ~Skipped(ev, jobs[w])
         /\ \E n \in 0..(Len(jobs[w].subs) - 1) : FanOut(w, ev, n)
    /\ UNCHANGED <<started, botThreads, schedulers,
                   subscribersFile, processedFile>>

\* line 258: the processed set is written back
PollSave(w) ==
    /\ jobs[w].pc = "loop"
    /\ jobs[w].left = 0
    /\ processedFile' = jobs[w].processed
    /\ jobs' = [jobs EXCEPT ![w] = [IdleJob EXCEPT !.last = "saved"]]
    /\ UNCHANGED <<started, botThreads, schedulers,
                   subscribersFile, sent>>


(***************************************************************************)
(* Server start-up, the scheduler and the chat commands                    *)
(***************************************************************************)
Mut_max_instances == 1 + 1    \* one activation more than configured

max_instances == 1        \* add_job(..., max_instances=1, ...)
coalesce == TRUE          \* add_job(..., coalesce=True, ...)

\* server.py on_startup: the bot thread is spawned once
on_startup ==
    /\ IF ~started
       THEN /\ botThreads < MaxThreads
            /\ botThreads' = botThreads + 1
            /\ started' = TRUE
       ELSE UNCHANGED <<started, botThreads>>
    /\ UNCHANGED <<schedulers, jobs, subscribersFile, processedFile, sent>>

\* _start_bot -> main(): handlers are registered, the poll job is added and
\* the scheduler is started
main ==
    /\ schedulers < botThreads
    /\ configFile' = Merge(DEFAULT_CONFIG, configFile)
    /\ job_interval' = configFile'.poll_every_seconds
    /\ schedulers' = schedulers + 1
    /\ UNCHANGED <<started, botThreads, jobs,
                   subscribersFile, processedFile, sent>>

Min(a, b) == IF a < b THEN a ELSE b

\* the scheduler wakes up and finds n run times of the poll job due (more
\* than one when it was held up), and handles them as add_job configured
\* it: with coalesce they are rolled into one run; a run is submitted only
\* while fewer than max_instances activations are running (a run time
\* missed by more than misfire_grace_time is dropped, which changes nothing)
RunJob ==
    /\ schedulers > 0
    /\ \E due \in 1..MaxDue :
         LET idle    == {w \in Workers : jobs[w].pc = "idle"}
             running == Cardinality(Workers) - Cardinality(idle)
             runs    == IF coalesce THEN 1 ELSE due
             room    == IF max_instances > running THEN max_instances - running ELSE 0
             k       == Min(runs, room)
             S       == {w \in idle : Cardinality({v \in idle : v < w}) < k}
         IN  jobs' = [w \in Workers |->
                        IF w \in S
                        THEN [IdleJob EXCEPT !.pc = "start"]
                        ELSE jobs[w]]
    /\ UNCHANGED <<started, botThreads, schedulers,
                   subscribersFile, processedFile, sent>>

\* list membership: chat_id in subs
InList(c, l) == \E i \in 1..Len(l) : l[i] = c

\* list.remove(x): the first occurrence is removed
RemoveFirst(l, c) ==
    LET i == CHOOSE j \in 1..Len(l) : l[j] = c /\ \A h \in 1..(j - 1) : l[h] # c
    IN  SubSeq(l, 1, i - 1) \o SubSeq(l, i + 1, Len(l))

\* /subscribe that appends without looking
Mut_subscribe(c) ==
    /\ schedulers > 0
    /\ subscribersFile' = Append(subscribersFile, c)
    /\ UNCHANGED <<started, botThreads, schedulers, jobs,
                   processedFile, sent>>

\* /subscribe from chat c
subscribe(c) ==
    /\ schedulers > 0
    /\ subscribersFile' = IF ~InList(c, subscribersFile)
                          THEN Append(subscribersFile, c)
                          ELSE subscribersFile
    /\ UNCHANGED <<started, botThreads, schedulers, jobs,
                   processedFile, sent>>

\* /unsubscribe from chat c
unsubscribe(c) ==
    /\ schedulers > 0
    /\ subscribersFile' = IF InList(c, subscribersFile)
                          THEN RemoveFirst(subscribersFile, c)
                          ELSE subscribersFile
    /\ UNCHANGED <<started, botThreads, schedulers, jobs,
                   processedFile, sent>>

Init ==
    /\ SysInit
    /\ fn = "none" /\ arg = <<>> /\ ret = <<>>

Next ==
    \/ on_startup /\ UNCHANGED cfgVars /\ UNCHANGED <<fn, arg, ret>>
    \/ main /\ UNCHANGED <<cmd, pollCfg, fn, arg, ret>>
    \/ RunJob /\ UNCHANGED cfgVars /\ UNCHANGED <<fn, arg, ret>>
    \/ \E c \in Chats : subscribe(c) /\ UNCHANGED cfgVars /\ UNCHANGED <<fn, arg, ret>>
    \/ \E c \in Chats : unsubscribe(c) /\ UNCHANGED cfgVars /\ UNCHANGED <<fn, arg, ret>>
    \/ \E w \in Workers : PollStart(w)
                             /\ UNCHANGED <<job_interval, cmd, pollCfg, fn, arg, ret>>
    \/ \E w \in Workers : PollFetch(w) /\ UNCHANGED cfgVars /\ UNCHANGED <<fn, arg, ret>>
    \/ \E w \in Workers : PollFetchError(w) /\ UNCHANGED cfgVars /\ UNCHANGED <<fn, arg, ret>>
    \/ \E w \in Workers : PollSkip(w) /\ UNCHANGED cfgVars /\ UNCHANGED <<fn, arg, ret>>
    \/ \E w \in Workers : PollNotify(w) /\ UNCHANGED cfgVars /\ UNCHANGED <<fn, arg, ret>>
    \/ \E w \in Workers : PollNotifyError(w) /\ UNCHANGED cfgVars /\ UNCHANGED <<fn, arg, ret>>
    \/ \E w \in Workers : PollSave(w) /\ UNCHANGED cfgVars /\ UNCHANGED <<fn, arg, ret>>

Spec == Init /\ [][Next]_vars


(***************************************************************************)
(* Properties of the poll cycle and the scheduler                          *)
(***************************************************************************)
Running == {w \in Workers : jobs[w].pc # "idle"}

KeysSent == {k \in Keys : \E c \in Chats : sent[k][c] > 0}

\* C1: the notification for one dedup key is sent to any given subscriber at
\* most once, over all poll cycles, whatever the provider returns and however
\* commands and send errors interleave.
C1_AtMostOnce == \A k \in Keys, c \in Chats : sent[k][c] <= 1

\* C2 (as claimed): a notification is sent for an event only if its actual
\* value is non-empty and its release time is not later than the time at
\* which the poll cycle started.
C2_NotInFuture ==
    \A w \in Workers :
        jobs[w].reached > 0 =>
            /\ ~ActualMissing(jobs[w].ev)
            /\ jobs[w].ev.release_time_utc <= jobs[w].now

\* C2 (amended): a notification is sent for an event only if its actual value
\* is non-empty and its release time is not later than one minute after the
\* time at which the poll cycle started.
C2_WithinOneMinute ==
    \A w \in Workers :
        jobs[w].reached > 0 =>
            /\ ~ActualMissing(jobs[w].ev)
            /\ jobs[w].ev.release_time_utc <= jobs[w].now + OneMinute

C2_Witness ==
    \E w \in Workers :
        /\ jobs[w].reached > 0
        /\ jobs[w].ev.release_time_utc = jobs[w].now + OneMinute

\* C3: once a cycle has sent the notification for key k to any subscriber, k
\* is in the persisted processed set when that cycle ends, and the persisted
\* set only grows.
C3_SentIsPersisted ==
    [][ /\ (Running' = {} => KeysSent' \subseteq processedFile')
        /\ processedFile \subseteq processedFile' ]_vars

\* C4: for every fetched event that is eligible and whose key is not yet in
\* the processed set, the message is sent to every chat id of the subscriber
\* list as read by the cycle and to no other chat; the list is the persisted
\* one at the time the cycle reads it.
C4_FanOutToAll ==
    [][ \A w \in Workers :
          /\ (jobs[w].pc = "fetch" /\ jobs'[w].pc = "loop")
                => jobs'[w].subs = subscribersFile
          /\ (jobs[w].pc = "loop" /\ jobs'[w].pc = "loop" /\ jobs'[w] # jobs[w]
              /\ ~Skipped(jobs'[w].ev, jobs[w]))
                => sent' = SentAfter(jobs'[w].ev.id_key, jobs[w].subs, Len(jobs[w].subs))
      ]_vars

\* C5: at most one execution of the poll cycle is in flight, and repeated
\* start-up events start at most one bot and one scheduler.
C5_OnePollInFlight ==
    /\ Cardinality(Running) <= 1
    /\ botThreads <= 1
    /\ schedulers <= 1

C5_Witness ==
    /\ started
    /\ schedulers = 1
    /\ \E w \in Workers : jobs[w].pc = "loop" /\ jobs[w].reached > 0

\* C10: a cycle whose fetch raises, or which finds no subscriber, returns
\* at once (no retry), having sent no message and having left the persisted
\* processed set and the subscriber list as they were.
C10_FailedCycleChangesNothing ==
    [][ \A w \in Workers :
          /\ (jobs[w].pc \in {"start", "fetch"} /\ jobs'[w] # jobs[w])
                => UNCHANGED <<sent, processedFile, subscribersFile>>
          /\ (jobs'[w] # jobs[w] /\ jobs'[w].last \in {"fetch_error", "no_subs"})
                => /\ jobs[w].pc = "fetch"
                   /\ jobs'[w].pc = "idle"
                   /\ UNCHANGED <<sent, processedFile, subscribersFile>>
      ]_vars

\* a cycle failed after an earlier one had notified and saved a key; the
\* scheduler is still running and the subscribers and the saved key are kept
C10_Witness ==
    \E w \in Workers :
        /\ jobs[w].pc = "idle"
        /\ jobs[w].last = "fetch_error"
        /\ schedulers = 1
        /\ processedFile # {}
        /\ subscribersFile # <<>>

\* C11: when a send raises during the fan-out of one event, that event's key
\* is not added to the processed set, the loop goes on with the remaining
\* rows of the fetch (the cycle leaves the loop only when no row is left),
\* and the keys of the events whose fan-out completed are in the set that
\* the cycle writes at its end.
C11_SendErrorSkipsKeyOnly ==
    [][ \A w \in Workers :
          /\ (jobs[w].pc = "loop" /\ jobs'[w].pc = "loop" /\ jobs'[w] # jobs[w])
                => /\ jobs'[w].left = jobs[w].left - 1
                   /\ jobs[w].processed \subseteq jobs'[w].processed
                   /\ (jobs'[w].ev # NoRow /\ jobs'[w].reached < Len(jobs[w].subs))
                        => /\ jobs'[w].processed = jobs[w].processed
                           /\ jobs'[w].ev.id_key \notin jobs'[w].processed
                   /\ (jobs'[w].ev # NoRow /\ jobs'[w].reached = Len(jobs[w].subs))
                        => jobs'[w].ev.id_key \in jobs'[w].processed
          /\ (jobs[w].pc = "loop" /\ jobs'[w].pc = "idle")
                => /\ jobs[w].left = 0
                   /\ processedFile' = jobs[w].processed
      ]_vars

\* a send has just raised for a row, whose key is left out of the set, and
\* a further row of the same fetch can still be notified
C11_Witness ==
    \E w \in Workers :
        /\ jobs[w].pc = "loop"
        /\ jobs[w].ev # NoRow
        /\ jobs[w].reached < Len(jobs[w].subs)
        /\ jobs[w].ev.id_key \notin jobs[w].processed
        /\ jobs[w].left > 0
        /\ ENABLED PollNotify(w)

\* the chats of a subscriber list
Members(l) == {l[i] : i \in 1..Len(l)}

\* C13: the persisted subscriber list holds no chat id twice; subscribe by
\* a chat in the list and unsubscribe by a chat not in it leave the list
\* unchanged; after subscribe the chat is in the list, after unsubscribe it
\* is not; neither changes the membership of another chat, and nothing else
\* changes the list.
C13_SubscriberList ==
    [][ /\ Cardinality(Members(subscribersFile')) = Len(subscribersFile')
        /\ \A c \in Chats :
              /\ subscribe(c)
                    => /\ Members(subscribersFile') = Members(subscribersFile) \cup {c}
                       /\ c \in Members(subscribersFile)
                            => subscribersFile' = subscribersFile
              /\ unsubscribe(c)
                    => /\ Members(subscribersFile') = Members(subscribersFile) \ {c}
                       /\ c \notin Members(subscribersFile)
                            => subscribersFile' = subscribersFile
        /\ subscribersFile' # subscribersFile
              => \E c \in Chats : subscribe(c) \/ unsubscribe(c)
      ]_vars

\* chat 101 was subscribed and notified, and has unsubscribed; chat 102 is
\* still in the list
C13_Witness ==
    /\ subscribersFile = <<102>>
    /\ \E k \in Keys : sent[k][101] > 0


(***************************************************************************)
(* parse_number on its own: every string over a small alphabet             *)
(***************************************************************************)
MaxLen == 4     \* length of the strings given to parse_number

ParseAlphabet == {"-", "1", "5", ".", ",", "%", "K", "k", "M"}

StringsUpTo(A, n) == UNION {[1..k -> A] : k \in 0..n}

\* the examples of the specification and a padded value
ParseExamples == {<<"3", ".", "2", "K">>, <<"-", "1", ".", "5", "%">>,
                  <<"-", "1", ",", "5", "k">>,
                  <<" ", "1", ",", "5", "5", "1", ".", "5", "M", " ">>}

ParseInputs == StringsUpTo(ParseAlphabet, MaxLen) \cup ParseExamples \cup {None}

InitParse ==
    /\ SysInit
    /\ fn = "parse_number"
    /\ arg \in ParseInputs
    /\ ret = <<>>

CallParseNumber ==
    /\ fn = "parse_number"
    /\ ret = <<>>
    /\ ret' = <<parse_number(arg)>>
    /\ UNCHANGED <<fn, arg>>
    /\ UNCHANGED sysVars

NextParse == CallParseNumber

SpecParse == InitParse /\ [][NextParse]_vars

\* The numeric strings of the claim: an optional leading "-", digits with
\* thousands commas, an optional fraction, and at most one trailing K, k, M
\* or %, blanks around it.  Their value is read off the parts.
NumericParts(v) ==
    LET s     == Strip(v)
        neg   == Len(s) > 0 /\ s[1] = "-"
        s1    == IF neg THEN Tail(s) ELSE s
        suf   == IF Len(s1) > 0 /\ s1[Len(s1)] \in {"K", "k", "M", "%"}
                 THEN s1[Len(s1)] ELSE ""
        s2    == IF suf = "" THEN s1 ELSE DropLast(s1)
        dots  == {i \in 1..Len(s2) : s2[i] = "."}
        dot   == IF dots = {} THEN Len(s2) + 1 ELSE CHOOSE i \in dots : TRUE
        ip    == SubSeq(s2, 1, dot - 1)
        fp    == SubSeq(s2, dot + 1, Len(s2))
    IN  [ok   |-> /\ Cardinality(dots) <= 1
                  /\ Len(ip) > 0
                  /\ \A i \in 1..Len(ip) : ip[i] \in Digits \cup {","}
                  /\ ip[1] \in Digits /\ ip[Len(ip)] \in Digits
                  /\ (dots # {} => Len(fp) > 0)
                  /\ \A i \in 1..Len(fp) : fp[i] \in Digits,
         neg  |-> neg, suf |-> suf, ip |-> ip, fp |-> fp]

IsNumeric(v) == v # None /\ NumericParts(v).ok

NumericValue(v) ==
    LET p == NumericParts(v)
        digits == SelectSeq(p.ip, LAMBDA c : c # ",") \o p.fp
        scale  == IF p.suf \in {"K", "k"} THEN 3 ELSE IF p.suf = "M" THEN 6 ELSE 0
    IN  Normalize([m |-> (IF p.neg THEN 0 - IntOf(digits) ELSE IntOf(digits)),
                   e |-> scale - Len(p.fp)])

HasDigit(v) == \E i \in 1..Len(v) : v[i] \in Digits

\* C9: parse_number returns the signed decimal value of a numeric string
\* (commas and a trailing % ignored, a leading - kept, a trailing K or k
\* times 1,000, a trailing M times 1,000,000), and None for None and for a
\* string without a digit.
C9_ParseNumber ==
    (fn = "parse_number" /\ ret # <<>>) =>
        /\ (arg = None => ret[1] = NoNumber)
        /\ (arg # None /\ ~HasDigit(arg) => ret[1] = NoNumber)
        /\ (IsNumeric(arg) => ret[1] = NumericValue(arg))
        /\ (arg = <<"3", ".", "2", "K">> => ret[1] = [m |-> 32, e |-> 2])
        /\ (arg = <<"-", "1", ".", "5", "%">> => ret[1] = [m |-> -15, e |-> -1])

C9_Witness ==
    /\ fn = "parse_number"
    /\ arg = <<"-", "1", ",", "5", "k">>
    /\ IsNumeric(arg)
    /\ ret = <<[m |-> -15, e |-> 3]>>


(***************************************************************************)
(* interpret_event                                                         *)
(***************************************************************************)
kw_cpi == <<"c", "p", "i">>
kw_core_cpi == <<"c", "o", "r", "e", " ", "c", "p", "i">>
kw_ppi == <<"p", "p", "i">>
kw_inflation == <<"i", "n", "f", "l", "a", "t", "i", "o", "n">>
kw_gdp == <<"g", "d", "p">>
kw_growth == <<"g", "r", "o", "w", "t", "h">>
kw_unemployment == <<"u", "n", "e", "m", "p", "l", "o", "y", "m", "e", "n", "t">>
kw_jobless == <<"j", "o", "b", "l", "e", "s", "s">>
kw_non_farm == <<"n", "o", "n", "-", "f", "a", "r", "m">>
kw_nonfarm == <<"n", "o", "n", "f", "a", "r", "m">>
kw_payroll == <<"p", "a", "y", "r", "o", "l", "l">>
kw_rate_decision == <<"r", "a", "t", "e", " ", "d", "e", "c", "i", "s", "i", "o", "n">>
kw_interest_rate == <<"i", "n", "t", "e", "r", "e", "s", "t", " ", "r", "a", "t", "e">>
kw_fomc == <<"f", "o", "m", "c">>

\* b or a: the second operand is preferred
Mut_Or(a, b) == IF b = None \/ b = <<>> THEN a ELSE b

\* a or b, for Optional[str]: None and "" are false
Or(a, b) == IF a = None \/ a = <<>> THEN b ELSE a

Neutral == [direction |-> "neutral", score |-> 0]

Max(a, b) == IF a > b THEN a ELSE b

\* hawkish_if_positive with >= in place of >
Mut_hawkish_if_positive(s, st) ==
    IF s = NoNumber THEN st
    ELSE IF Sign(s) >= 0 THEN [direction |-> "hawkish", score |-> Max(st.score, 1)]
    ELSE IF Sign(s) < 0 THEN [direction |-> "dovish", score |-> Min(st.score, -1)]
    ELSE st

hawkish_if_positive(s, st) ==
    IF s = NoNumber THEN st
    ELSE IF Sign(s) > 0 THEN [direction |-> "hawkish", score |-> Max(st.score, 1)]
    ELSE IF Sign(s) < 0 THEN [direction |-> "dovish", score |-> Min(st.score, -1)]
    ELSE st

\* dovish_if_positive with the two directions as in hawkish_if_positive
Mut_dovish_if_positive(s, st) ==
    IF s = NoNumber THEN st
    ELSE IF Sign(s) > 0 THEN [direction |-> "hawkish", score |-> Max(st.score, 1)]
    ELSE IF Sign(s) < 0 THEN [direction |-> "dovish", score |-> Min(st.score, -1)]
    ELSE st

dovish_if_positive(s, st) ==
    IF s = NoNumber THEN st
    ELSE IF Sign(s) > 0 THEN [direction |-> "dovish", score |-> Min(st.score, -1)]
    ELSE IF Sign(s) < 0 THEN [direction |-> "hawkish", score |-> Max(st.score, 1)]
    ELSE st

\* the direction, score, tags and notes of the returned analysis (summary
\* and details are renderings of the event and of these)
interpret_event(ev) ==
    LET Surprise(actual, forecast) ==
            IF actual # NoNumber /\ forecast # NoNumber
            THEN Minus(actual, forecast) ELSE NoNumber
        Branch(category, surprise) ==
            IF \E k \in {kw_cpi, kw_core_cpi, kw_ppi, kw_inflation} : Contains(k, category)
            THEN [tag |-> "inflation",
                  st  |-> IF surprise # NoNumber
                          THEN hawkish_if_positive(surprise, Neutral) ELSE Neutral,
                  nuance |-> IF surprise # NoNumber
                             THEN <<IF Sign(surprise) > 0
                                    THEN "inflation surprise: hotter"
                                    ELSE "inflation surprise: cooler">>
                             ELSE <<>>]
            ELSE IF \E k \in {kw_gdp, kw_growth} : Contains(k, category)
            THEN [tag |-> "growth", st |-> hawkish_if_positive(surprise, Neutral),
                  nuance |-> <<>>]
            ELSE IF \E k \in {kw_unemployment, kw_jobless} : Contains(k, category)
            THEN [tag |-> "labor", st |-> dovish_if_positive(surprise, Neutral),
                  nuance |-> <<>>]
            ELSE IF \E k \in {kw_non_farm, kw_nonfarm, kw_payroll} : Contains(k, category)
            THEN [tag |-> "labor", st |-> hawkish_if_positive(surprise, Neutral),
                  nuance |-> <<>>]
            ELSE IF \E k \in {kw_rate_decision, kw_interest_rate, kw_fomc} :
                        Contains(k, category)
            THEN [tag |-> "rates", st |-> hawkish_if_positive(surprise, Neutral),
                  nuance |-> <<>>]
            ELSE [tag |-> "other", st |-> hawkish_if_positive(surprise, Neutral),
                  nuance |-> <<>>]
        \* change: actual - previous where both are numbers
        VsPrevious(change) ==
            IF change # NoNumber
            THEN <<IF Sign(change) > 0 THEN "rising vs previous"
                   ELSE IF Sign(change) < 0 THEN "falling vs previous"
                   ELSE "unchanged vs previous">>
            ELSE <<>>
        Analysis(branch, vsPrevious) ==
            [direction |-> branch.st.direction,
             score     |-> branch.st.score,
             tags      |-> <<branch.tag>>,
             nuance    |-> branch.nuance \o vsPrevious]
        Interpret(actual, forecast, previous, category) ==
            Analysis(Branch(category, Surprise(actual, forecast)),
                     VsPrevious(Surprise(actual, previous)))
    IN  Interpret(parse_number(ev.actual), parse_number(ev.forecast),
                  parse_number(ev.previous), Lower(Or(Or(ev.category, ev.name), <<>>)))

(***************************************************************************)
(* interpret_event on its own: events over a vocabulary of categories      *)
(***************************************************************************)
MaxPhrases == 2     \* phrases in the category text of an event

Space == <<" ">>

Phrases == {
    <<"C", "P", "I">>,
    <<"C", "o", "r", "e", " ", "C", "P", "I">>,
    <<"P", "P", "I">>,
    <<"I", "n", "f", "l", "a", "t", "i", "o", "n", " ", "R", "a", "t", "e">>,
    <<"G", "D", "P">>,
    <<"W", "a", "g", "e", " ", "G", "r", "o", "w", "t", "h">>,
    <<"U", "n", "e", "m", "p", "l", "o", "y", "m", "e", "n", "t", " ", "R", "a", "t", "e">>,
    <<"J", "o", "b", "l", "e", "s", "s", " ", "C", "l", "a", "i", "m", "s">>,
    <<"N", "o", "n", "-", "F", "a", "r", "m">>,
    <<"N", "o", "n", "f", "a", "r", "m">>,
    <<"P", "a", "y", "r", "o", "l", "l", "s">>,
    <<"R", "a", "t", "e", " ", "D", "e", "c", "i", "s", "i", "o", "n">>,
    <<"I", "n", "t", "e", "r", "e", "s", "t", " ", "R", "a", "t", "e">>,
    <<"F", "O", "M", "C">>,
    <<"R", "e", "t", "a", "i", "l", " ", "S", "a", "l", "e", "s">>}

RECURSIVE Texts(_)
Texts(n) ==
    IF n = 0 THEN {<<>>}
    ELSE LET shorter == Texts(n - 1)
         IN  shorter \cup {IF s = <<>> THEN p ELSE s \o Space \o p :
                               s \in shorter, p \in Phrases}

Categories == Texts(MaxPhrases) \cup {None}

Names == {None, <<"I", "n", "i", "t", "i", "a", "l", " ", "J", "o", "b", "l", "e", "s", "s", " ", "C", "l", "a", "i", "m", "s">>, <<"D", "u", "r", "a", "b", "l", "e", " ", "G", "o", "o", "d", "s">>}

Actuals   == {None, <<"n", "/", "a">>, <<"1", ".", "5", "K">>, <<"3">>}
Forecasts == {<<>>, <<"1", ",", "5", "0", "0">>, <<"-", "1", ".", "5", "%">>}
Previouses == {None, <<"1", ".", "5", "K">>}

Events == [category : Categories, name : Names, actual : Actuals,
           forecast : Forecasts, previous : Previouses]

InitInterpret ==
    /\ SysInit
    /\ fn = "interpret_event"
    /\ arg \in Events
    /\ ret = <<>>

CallInterpretEvent ==
    /\ fn = "interpret_event"
    /\ ret = <<>>
    /\ ret' = <<interpret_event(arg)>>
    /\ UNCHANGED <<fn, arg>>
    /\ UNCHANGED sysVars

NextInterpret == CallInterpretEvent

SpecInterpret == InitInterpret /\ [][NextInterpret]_vars


(***************************************************************************)
(* Properties of interpret_event                                           *)
(***************************************************************************)
Interpreted == fn = "interpret_event" /\ ret # <<>>

\* the text the rows are matched against: the category, or the event name
\* when the category is empty, in lower case
CategoryText(ev) ==
    Lower(IF ev.category # None /\ ev.category # <<>> THEN ev.category
          ELSE IF ev.name # None /\ ev.name # <<>> THEN ev.name
          ELSE <<>>)

InRow(row, text) == \E k \in row : Contains(k, text)

InflationRow == {kw_cpi, kw_core_cpi, kw_ppi, kw_inflation}
GrowthRow    == {kw_gdp, kw_growth}
JoblessRow   == {kw_unemployment, kw_jobless}
PayrollRow   == {kw_non_farm, kw_nonfarm, kw_payroll}
RatesRow     == {kw_rate_decision, kw_interest_rate, kw_fomc}

\* actual and forecast both parse and differ
HasSurprise(ev) ==
    /\ parse_number(ev.actual) # NoNumber
    /\ parse_number(ev.forecast) # NoNumber
    /\ parse_number(ev.actual) # parse_number(ev.forecast)

PositiveSurprise(ev) == Sign(Minus(parse_number(ev.actual), parse_number(ev.forecast))) > 0

\* C6 (as claimed): with a surprise, a category containing "unemployment" or
\* "jobless" is dovish on a positive surprise and hawkish on a negative one;
\* a category of one of the other four rows, or of no row, is hawkish on a
\* positive surprise and dovish on a negative one.
C6_RuleTable ==
    (Interpreted /\ HasSurprise(arg)) =>
        LET text == CategoryText(arg)
            pos  == PositiveSurprise(arg)
        IN  /\ InRow(JoblessRow, text)
                 => ret[1].direction = (IF pos THEN "dovish" ELSE "hawkish")
            /\ (\/ InRow(InflationRow \cup GrowthRow \cup PayrollRow \cup RatesRow, text)
                \/ ~InRow(JoblessRow, text))
                 => ret[1].direction = (IF pos THEN "hawkish" ELSE "dovish")

\* C6 (amended): with a surprise, a category text (the category, or the
\* event name when the category is empty) that contains "unemployment" or
\* "jobless" and no keyword of the inflation and growth rows is dovish on a
\* positive surprise and hawkish on a negative one; every other category
\* text is hawkish on a positive surprise and dovish on a negative one.
C6_RuleTableFirstMatch ==
    (Interpreted /\ HasSurprise(arg)) =>
        LET text == CategoryText(arg)
            pos  == PositiveSurprise(arg)
        IN  IF InRow(JoblessRow, text) /\ ~InRow(InflationRow \cup GrowthRow, text)
            THEN ret[1].direction = (IF pos THEN "dovish" ELSE "hawkish")
            ELSE ret[1].direction = (IF pos THEN "hawkish" ELSE "dovish")

C6_Witness ==
    /\ Interpreted
    /\ HasSurprise(arg)
    /\ PositiveSurprise(arg)
    /\ InRow(JoblessRow, CategoryText(arg))
    /\ InRow(GrowthRow, CategoryText(arg))
    /\ ret[1].direction = "hawkish"

\* the tag of the first row of the table that the text matches
FirstRowTag(text) ==
    IF InRow(InflationRow, text) THEN "inflation"
    ELSE IF InRow(GrowthRow, text) THEN "growth"
    ELSE IF InRow(JoblessRow, text) THEN "labor"
    ELSE IF InRow(PayrollRow, text) THEN "labor"
    ELSE IF InRow(RatesRow, text) THEN "rates"
    ELSE "other"

\* C15: exactly one row is applied, the first that the category text
\* matches in the order inflation, growth, unemployment/jobless, payrolls,
\* rates, default; a text with "unemployment" or "jobless" and an inflation
\* or growth keyword is hawkish on a positive surprise; and the event name
\* plays no part unless the category is empty.
C15_FirstMatchingRow ==
    Interpreted =>
        /\ ret[1].tags = <<FirstRowTag(CategoryText(arg))>>
        /\ (/\ HasSurprise(arg) /\ PositiveSurprise(arg)
            /\ InRow(JoblessRow, CategoryText(arg))
            /\ InRow(InflationRow \cup GrowthRow, CategoryText(arg)))
                => ret[1].direction = "hawkish"
        /\ (arg.category # None /\ arg.category # <<>>)
                => ret[1] = interpret_event([arg EXCEPT !.name = None])

\* a category with an inflation and a jobless keyword, and a name with a
\* jobless keyword: the inflation row alone is applied
C15_Witness ==
    /\ Interpreted
    /\ HasSurprise(arg) /\ PositiveSurprise(arg)
    /\ arg.category # None
    /\ InRow(InflationRow, Lower(arg.category))
    /\ InRow(JoblessRow, Lower(arg.category))
    /\ arg.name # None
    /\ InRow(JoblessRow, Lower(arg.name))
    /\ ret[1].tags = <<"inflation">>
    /\ ret[1].direction = "hawkish"

\* the notes of the returned analysis
Notes == {ret[1].nuance[i] : i \in 1..Len(ret[1].nuance)}

\* C18: for an event of the inflation row the note says "hotter" exactly
\* when the direction is hawkish and "cooler" exactly when it is dovish;
\* with a neutral direction there is no hotter/cooler note.
C18_NoteAgreesWithDirection ==
    (Interpreted /\ InRow(InflationRow, CategoryText(arg))) =>
        /\ ("inflation surprise: hotter" \in Notes) <=> (ret[1].direction = "hawkish")
        /\ ("inflation surprise: cooler" \in Notes) <=> (ret[1].direction = "dovish")

\* C8: the direction is hawkish, dovish or neutral; it is neutral exactly
\* when actual or forecast is missing or unparseable or the two are equal;
\* the score is +1 for hawkish, -1 for dovish and 0 for neutral.
C8_DirectionAndScore ==
    Interpreted =>
        LET a == parse_number(arg.actual)
            f == parse_number(arg.forecast)
        IN  /\ ret[1].direction \in {"hawkish", "dovish", "neutral"}
            /\ (ret[1].direction = "neutral") <=> (a = NoNumber \/ f = NoNumber \/ a = f)
            /\ ret[1].score = (CASE ret[1].direction = "hawkish" -> 1
                                 [] ret[1].direction = "dovish"  -> -1
                                 [] OTHER -> 0)

\* equal values written differently ("1.5K" and "1,500") are neutral
C8_Witness ==
    /\ Interpreted
    /\ arg.actual # arg.forecast
    /\ parse_number(arg.actual) # NoNumber
    /\ parse_number(arg.actual) = parse_number(arg.forecast)
    /\ ret[1].direction = "neutral"
    /\ ret[1].score = 0


(***************************************************************************)
(* The dedup key: _build_id, and the row normalisation of fetch_calendar   *)
(*                                                                         *)
(* A date string is [form, day, minute]: the layout of the text and the    *)
(* moment it denotes.  Two date strings are the same text exactly when     *)
(* the records are equal.  The key is the pair of the text                 *)
(* "country|name|" and the date string that follows it.                    *)
(***************************************************************************)
NoDate    == [form |-> "None", day |-> 0, minute |-> 0]     \* the field is None or absent
EmptyDate == [form |-> "", day |-> 0, minute |-> 0]         \* ""

\* a or b, for Optional date strings
OrDate(a, b) == IF a = NoDate \/ a = EmptyDate THEN b ELSE a

\* s.replace("T", " ").replace("Z", "")
ReplaceTBySpace(d) ==
    [d EXCEPT !.form = CASE @ = "Y-m-dTH:M:S" -> "Y-m-d H:M:S"
                         [] @ = "Y-m-dTH:M:SZ" -> "Y-m-d H:M:S"
                         [] @ = "m/d/YTH:M" -> "m/d/Y H:M"
                         [] OTHER -> @]

\* s.replace(" ", "T")
ReplaceSpaceByT(d) ==
    [d EXCEPT !.form = CASE @ = "Y-m-d H:M:S" -> "Y-m-dTH:M:S"
                         [] @ = "Y-m-d H:M" -> "Y-m-dTH:M"
                         [] @ = "m/d/Y H:M" -> "m/d/YTH:M"
                         [] OTHER -> @]

\* the formats that strptime is tried with, line 121
KnownFormats == {"Y-m-d H:M:S", "Y-m-d H:M", "Y-m-d", "m/d/Y H:M:S", "m/d/Y H:M"}

\* datetime.now() of the fetch, for a date string that matches no format
FetchNow == [day |-> 9, minute |-> 9]

_parse_te_datetime(dt_str) ==
    LET s == ReplaceTBySpace(dt_str)
    IN  IF s.form \in KnownFormats
        THEN [day |-> s.day, minute |-> IF s.form = "Y-m-d" THEN 0 ELSE s.minute]
        ELSE FetchNow

kw_Unknown == <<"U", "n", "k", "n", "o", "w", "n">>
kw_NA == <<"N", "A">>
Bar == <<"|">>

_build_id(item) ==
    LET date_key == ReplaceSpaceByT(OrDate(OrDate(item.Date, item.DateUTC), EmptyDate))
        name_key == Or(Or(item.Event, item.Category), kw_Unknown)
        country  == Or(item.Country, kw_NA)
    IN  [text |-> country \o Bar \o name_key \o Bar, date |-> date_key]

\* f"{date_part} {time_part}", lines 98-100
DateAndTime(date_part, time_part) ==
    IF date_part.form = "Y-m-d"
    THEN [form |-> "Y-m-d H:M", day |-> date_part.day, minute |-> time_part]
    ELSE [form |-> "garbage", day |-> 0, minute |-> 0]

\* one row of fetch_calendar, lines 96-115: the fields that identify a release
MacroEvent(item, country) ==
    LET dt0    == OrDate(item.Date, item.DateUTC)
        dt_str == IF dt0 = NoDate \/ dt0 = EmptyDate
                  THEN DateAndTime(OrDate(item.Date, item.date),
                                   IF item.time < 0 THEN 0 ELSE item.time)
                  ELSE dt0
    IN  [id_key  |-> _build_id(item),
         country |-> Or(item.Country, country),
         name    |-> Or(item.Event, item.Category),
         release_time_utc |-> _parse_te_datetime(dt_str)]

\* fetch_calendar: the rows of the response, normalised in order
fetch_calendar(data, country) == [i \in 1..Len(data) |-> MacroEvent(data[i], country)]

(***************************************************************************)
(* fetch_calendar on its own: responses of two rows                        *)
(***************************************************************************)
CfgCountry == <<"U", "S">>

ItemDates == {NoDate,
              [form |-> "Y-m-d H:M:S", day |-> 1, minute |-> 30],
              [form |-> "Y-m-dTH:M:S", day |-> 1, minute |-> 30],
              [form |-> "Y-m-dTH:M:S", day |-> 2, minute |-> 30]}

\* rows as the provider lays them out: the country is given, and the moment
\* of the release is in "Date", in "DateUTC", or split over "date" and "time"
Items == [Country : {<<"U", "S">>, <<"D", "E">>},
          Event : {None, <<"C", "P", "I">>},
          Category : {<<"C", "P", "I">>, <<"G", "D", "P">>},
          Date : ItemDates,
          DateUTC : {NoDate, [form |-> "Y-m-dTH:M:S", day |-> 1, minute |-> 30]},
          date : {NoDate, [form |-> "Y-m-d", day |-> 1, minute |-> 0],
                          [form |-> "Y-m-d", day |-> 2, minute |-> 0]},
          time : {-1, 30}]

InitFetch ==
    /\ SysInit
    /\ fn = "fetch_calendar"
    /\ arg \in [1..2 -> Items]
    /\ ret = <<>>

CallFetchCalendar ==
    /\ fn = "fetch_calendar"
    /\ ret = <<>>
    /\ ret' = <<fetch_calendar(arg, CfgCountry)>>
    /\ UNCHANGED <<fn, arg>>
    /\ UNCHANGED sysVars

NextFetch == CallFetchCalendar

SpecFetch == InitFetch /\ [][NextFetch]_vars

Fetched == fn = "fetch_calendar" /\ ret # <<>>

SameRelease(e1, e2) ==
    /\ e1.country = e2.country
    /\ e1.name = e2.name
    /\ e1.release_time_utc = e2.release_time_utc

\* C7: two fetched rows receive the same dedup key if and only if they are
\* the same release (same country, same event name, same release
\* date-time); two distinct releases never share a key.
C7_KeyIdentifiesRelease ==
    Fetched =>
        LET e1 == ret[1][1]
            e2 == ret[1][2]
        IN  (e1.id_key = e2.id_key) <=> SameRelease(e1, e2)


(***************************************************************************)
(* The runtime configuration: get_config, parse_config_args, config_cmd    *)
(*                                                                         *)
(* config_cmd runs on the bot's event loop and is not interrupted by       *)
(* another command before its reply; the get_config of a poll cycle runs   *)
(* on the scheduler's thread, so its load and its save interleave with     *)
(* the steps of a command.                                                 *)
(***************************************************************************)
kw_poll == <<"p", "o", "l", "l">>
kw_window == <<"w", "i", "n", "d", "o", "w">>

MinPoll == 15      \* max(15, int(v))
MinWindow == 1     \* max(1, int(v))

\* "=" in a
HasChar(s, c) == \E i \in 1..Len(s) : s[i] = c

\* position of the first c in s
IndexOf(s, c) == CHOOSE i \in 1..Len(s) : s[i] = c /\ \A j \in 1..(i - 1) : s[j] # c

\* int(v): blanks around, an optional sign, then digits only; anything else
\* raises ValueError (ok is FALSE)
ParseInt(v) ==
    LET s      == Strip(v)
        signed == Len(s) > 0 /\ s[1] \in {"-", "+"}
        ds     == IF signed THEN Tail(s) ELSE s
    IN  IF ds # <<>> /\ \A i \in 1..Len(ds) : ds[i] \in Digits
        THEN [ok |-> TRUE, n |-> (IF signed /\ s[1] = "-" THEN -1 ELSE 1) * IntOf(ds)]
        ELSE [ok |-> FALSE, n |-> 0]

\* one round of the loop of parse_config_args: out after the argument a
ParseArg(out, a) ==
    IF ~HasChar(a, "=") THEN out
    ELSE LET i == IndexOf(a, "=")
             k == Lower(Strip(SubSeq(a, 1, i - 1)))
             v == Strip(SubSeq(a, i + 1, Len(a)))
         IN  IF k = kw_poll /\ ParseInt(v).ok
             THEN Merge(out, [poll_every_seconds |-> Max(MinPoll, ParseInt(v).n)])
             ELSE IF k = kw_window /\ ParseInt(v).ok
             THEN Merge(out, [window_minutes |-> Max(MinWindow, ParseInt(v).n)])
             ELSE out

RECURSIVE ParseArgs(_, _)
ParseArgs(out, args) ==
    IF args = <<>> THEN out ELSE ParseArgs(ParseArg(out, Head(args)), Tail(args))

parse_config_args(args) == ParseArgs(EmptyDict, args)

MaxArgs == 2     \* arguments of one /config command

\* arguments a chat can give
ConfigWords == {<<"p", "o", "l", "l", "=", "9", "0">>,
                <<"P", "o", "l", "l", "=", "-", "5">>,
                <<"p", "o", "l", "l", "=", "1", ".", "5">>,
                <<"w", "i", "n", "d", "o", "w", "=", "0">>,
                <<"w", "i", "n", "d", "o", "w", "=", "x">>,
                <<"f", "o", "o", "=", "1">>,
                <<"p", "o", "l", "l">>}

ConfigArgs == UNION {[1..n -> ConfigWords] : n \in 0..MaxArgs}

\* config_cmd line 381, first half of get_config: config.json is loaded and
\* merged over the defaults
CmdLoad ==
    /\ schedulers > 0
    /\ cmd.pc = "idle"
    /\ cmd' = [pc |-> "loaded", cfg |-> Merge(DEFAULT_CONFIG, configFile),
               args |-> <<>>, last |-> "none"]
    /\ UNCHANGED <<configFile, job_interval, pollCfg>>

\* second half of get_config: the merged value is written back
CmdMerge ==
    /\ cmd.pc = "loaded"
    /\ configFile' = cmd.cfg
    /\ cmd' = [cmd EXCEPT !.pc = "merged"]
    /\ UNCHANGED <<job_interval, pollCfg>>

\* lines 382-390: the arguments are parsed; without new values the usage
\* text is sent and the command returns, else cfg is updated and saved
CmdSave ==
    /\ cmd.pc = "merged"
    /\ \E args \in ConfigArgs :
         LET new_vals == parse_config_args(args)
         IN  IF new_vals = EmptyDict
             THEN /\ cmd' = [cmd EXCEPT !.pc = "idle", !.args = args, !.last = "usage"]
                  /\ UNCHANGED configFile
             ELSE /\ cmd' = [cmd EXCEPT !.pc = "saved", !.args = args,
                                        !.cfg = Merge(cmd.cfg, new_vals)]
                  /\ configFile' = Merge(cmd.cfg, new_vals)
    /\ UNCHANGED <<job_interval, pollCfg>>

\* lines 393-403: the poll job, when there is one, is rescheduled to the
\* interval of cfg, and success is reported
CmdReschedule ==
    /\ cmd.pc = "saved"
    /\ job_interval' = IF job_interval > 0 THEN cmd.cfg.poll_every_seconds
                       ELSE job_interval
    /\ cmd' = [cmd EXCEPT !.pc = "idle", !.last = "success"]
    /\ UNCHANGED <<configFile, pollCfg>>

\* poll_and_notify line 230, first half of get_config, on the scheduler's
\* thread
PollCfgLoad ==
    /\ job_interval > 0
    /\ pollCfg.pc = "idle"
    /\ pollCfg' = [pc |-> "loaded", cfg |-> Merge(DEFAULT_CONFIG, configFile)]
    /\ UNCHANGED <<configFile, job_interval, cmd>>

\* second half of that get_config: the merged value is written back
PollCfgSave ==
    /\ pollCfg.pc = "loaded"
    /\ configFile' = pollCfg.cfg
    /\ pollCfg' = IdlePollCfg
    /\ UNCHANGED <<job_interval, cmd>>

otherVars == <<jobs, subscribersFile, processedFile, sent, fn, arg, ret>>

NextConfig ==
    \/ on_startup /\ UNCHANGED cfgVars /\ UNCHANGED <<fn, arg, ret>>
    \/ main /\ UNCHANGED <<cmd, pollCfg, fn, arg, ret>>
    \/ CmdLoad /\ UNCHANGED <<started, botThreads, schedulers>> /\ UNCHANGED otherVars
    \/ CmdMerge /\ UNCHANGED <<started, botThreads, schedulers>> /\ UNCHANGED otherVars
    \/ CmdSave /\ UNCHANGED <<started, botThreads, schedulers>> /\ UNCHANGED otherVars
    \/ CmdReschedule /\ UNCHANGED <<started, botThreads, schedulers>> /\ UNCHANGED otherVars
    \/ PollCfgLoad /\ UNCHANGED <<started, botThreads, schedulers>> /\ UNCHANGED otherVars
    \/ PollCfgSave /\ UNCHANGED <<started, botThreads, schedulers>> /\ UNCHANGED otherVars

SpecConfig == Init /\ [][NextConfig]_vars


(***************************************************************************)
(* Properties of the configuration                                         *)
(***************************************************************************)
\* what a get_config would return now
Settings == Merge(DEFAULT_CONFIG, configFile)

\* C12: once a /config command has saved its values and reported success,
\* a get_config returns these values (until the next command changes
\* them), however the command interleaved with the get_config of a poll
\* cycle.
C12_ConfigNeverLost ==
    (cmd.pc = "idle" /\ cmd.last = "success") => Settings = cmd.cfg

\* the argument a gives the setting named key an integer value
GivesInt(a, key) ==
    /\ HasChar(a, "=")
    /\ Lower(Strip(SubSeq(a, 1, IndexOf(a, "=") - 1))) = key
    /\ ParseInt(SubSeq(a, IndexOf(a, "=") + 1, Len(a))).ok

HasIntArg(args, key) == \E i \in 1..Len(args) : GivesInt(args[i], key)

C17_IntervalIsPersisted ==
    (job_interval > 0 /\ cmd.pc = "idle") => job_interval = Settings.poll_every_seconds


(***************************************************************************)
(* One activation of poll_and_notify, statement by statement               *)
(*                                                                         *)
(* arg is what the activation meets: the rows of the response, the         *)
(* processed set and the subscriber list on disk.  ret is the activation:  *)
(* its position, the index i of the row at hand, the number c of chats     *)
(* served for it, its processed set, and the log of the statements it has  *)
(* executed.                                                               *)
(***************************************************************************)
OrderRows == [id_key : Keys, actual : {None, <<"1", ".", "5">>},
              release_time_utc : {CycleNow, CycleNow + OneMinute + 1}]

OrderInputs == [events : UNION {[1..n -> OrderRows] : n \in 0..MaxRows},
                processed : SUBSET Keys,
                subs : {<<>>, <<101>>, <<101, 102>>}]

Step(name, i, chat) == [step |-> name, i |-> i, chat |-> chat]

InitOrder ==
    /\ SysInit
    /\ fn = "poll_and_notify"
    /\ arg \in OrderInputs
    /\ ret = [pc |-> "fetch", i |-> 0, c |-> 0, processed |-> {}, log |-> <<>>]

\* lines 234-235: the fetch returns the rows
OrderFetch ==
    /\ ret.pc = "fetch"
    /\ ret' = [ret EXCEPT !.pc = "load", !.log = Append(@, Step("fetch", 0, 0))]

\* lines 236-238: the fetch raises and the cycle returns
OrderFetchError ==
    /\ ret.pc = "fetch"
    /\ ret' = [ret EXCEPT !.pc = "done", !.log = Append(@, Step("fetch error", 0, 0))]

\* lines 240-242: the snapshots are loaded; no subscriber, no loop
OrderLoad ==
    /\ ret.pc = "load"
    /\ ret' = [ret EXCEPT !.pc = IF arg.subs = <<>> THEN "done" ELSE "loop",
                          !.i = 1,
                          !.processed = arg.processed,
                          !.log = Append(@, Step("load", 0, 0))]

\* the tests of lines 245-246 alone: the processed set is not consulted
\* before the row is interpreted
Mut_OrderTest ==
    /\ ret.pc = "loop"
    /\ ret.i <= Len(arg.events)
    /\ LET ev == arg.events[ret.i]
       IN  ret' = IF ActualMissing(ev) \/ InFuture(ev, CycleNow)
                  THEN [ret EXCEPT !.i = @ + 1]
                  ELSE [ret EXCEPT !.pc = "interpret"]

\* lines 245-247: the three tests of the row at hand, in their order; the
\* third is the look-up in the processed set
OrderTest ==
    /\ ret.pc = "loop"
    /\ ret.i <= Len(arg.events)
    /\ LET ev == arg.events[ret.i]
       IN  ret' = IF ActualMissing(ev) \/ InFuture(ev, CycleNow)
                  THEN [ret EXCEPT !.i = @ + 1]
                  ELSE IF ev.id_key \in ret.processed
                  THEN [ret EXCEPT !.i = @ + 1,
                                   !.log = Append(@, Step("dedup", ret.i, 0))]
                  ELSE [ret EXCEPT !.pc = "interpret",
                                   !.log = Append(@, Step("dedup", ret.i, 0))]

\* lines 249-250: interpret_event and the message text
OrderInterpret ==
    /\ ret.pc = "interpret"
    /\ ret' = [ret EXCEPT !.pc = "send", !.c = 0,
                          !.log = Append(@, Step("interpret", ret.i, 0))]

\* lines 252-254: the message goes to the next chat; after the last chat
\* the key is added to processed
OrderSend ==
    /\ ret.pc = "send"
    /\ LET last == ret.c + 1 = Len(arg.subs)
       IN  ret' = [ret EXCEPT
                     !.pc = IF last THEN "loop" ELSE "send",
                     !.c  = IF last THEN 0 ELSE @ + 1,
                     !.i  = IF last THEN @ + 1 ELSE @,
                     !.processed = IF last THEN @ \cup {arg.events[ret.i].id_key}
                                   ELSE @,
                     !.log = Append(@, Step("send", ret.i, arg.subs[ret.c + 1]))]

\* lines 255-256: the send raises; the loop goes to the next row
OrderSendError ==
    /\ ret.pc = "send"
    /\ ret' = [ret EXCEPT !.pc = "loop", !.c = 0, !.i = @ + 1,
                          !.log = Append(@, Step("send error", ret.i, 0))]

\* line 258: the processed set is written
OrderSave ==
    /\ ret.pc = "loop"
    /\ ret.i > Len(arg.events)
    /\ ret' = [ret EXCEPT !.pc = "done", !.log = Append(@, Step("save", 0, 0))]

NextOrder ==
    \/ OrderFetch /\ UNCHANGED <<fn, arg>> /\ UNCHANGED sysVars
    \/ OrderFetchError /\ UNCHANGED <<fn, arg>> /\ UNCHANGED sysVars
    \/ OrderLoad /\ UNCHANGED <<fn, arg>> /\ UNCHANGED sysVars
    \/ OrderTest /\ UNCHANGED <<fn, arg>> /\ UNCHANGED sysVars
    \/ OrderInterpret /\ UNCHANGED <<fn, arg>> /\ UNCHANGED sysVars
    \/ OrderSend /\ UNCHANGED <<fn, arg>> /\ UNCHANGED sysVars
    \/ OrderSendError /\ UNCHANGED <<fn, arg>> /\ UNCHANGED sysVars
    \/ OrderSave /\ UNCHANGED <<fn, arg>> /\ UNCHANGED sysVars

SpecOrder == InitOrder /\ [][NextOrder]_vars

\* positions of the log with the given statement for row i
At(name, i) == {n \in 1..Len(ret.log) : ret.log[n].step = name /\ ret.log[n].i = i}

Before(A, B) == \A b \in B : \E a \in A : a < b

InOrder ==
    /\ fn = "poll_and_notify"
    /\ Before(At("fetch", 0), (1..Len(ret.log)) \ (At("fetch", 0) \cup At("fetch error", 0)))
    /\ \A i \in 1..MaxRows : Before(At("interpret", i), At("send", i))
    /\ \A n \in At("save", 0) : n = Len(ret.log)

\* C14 (as claimed): the fetch comes first, a row is interpreted before it
\* is looked up in the processed set, it is sent after it was interpreted,
\* and the processed set is written after everything else.
C14_InterpretBeforeDedup ==
    fn = "poll_and_notify" =>
        /\ InOrder
        /\ \A i \in 1..MaxRows : Before(At("interpret", i), At("dedup", i))

\* C14 (amended): the fetch comes first, a row is looked up in the
\* processed set before it is interpreted, it is sent after it was
\* interpreted, and the processed set is written after everything else.
C14_DedupBeforeInterpret ==
    fn = "poll_and_notify" =>
        /\ InOrder
        /\ \A i \in 1..MaxRows : Before(At("dedup", i), At("interpret", i))

\* a cycle over two rows has ended: the first was found processed and was
\* not interpreted, the second was interpreted and sent
C14_Witness ==
    /\ fn = "poll_and_notify"
    /\ ret.pc = "done"
    /\ At("dedup", 1) # {} /\ At("interpret", 1) = {}
    /\ At("interpret", 2) # {} /\ At("send", 2) # {}
    /\ At("save", 0) # {}


(***************************************************************************)
(* The query of one poll cycle and the rows it lets through                *)
(*                                                                         *)
(* Times are minutes since the midnight that begins day 0.  The provider   *)
(* is asked with the parameters that fetch_calendar builds and answers     *)
(* for the days they name; whether it has the row at all is its choice.    *)
(***************************************************************************)
MinutesPerDay == 1440

\* start.strftime("%Y-%m-%d"): the day of a time
DateOf(t) == t \div MinutesPerDay

\* lines 83-88: the parameters of the request
calendar_params(start, end, country) ==
    [start |-> DateOf(start), end |-> DateOf(end), country |-> country]

\* the moments a cycle starts at: midnight, three minutes past, noon and
\* the last minute of day 1
CycleTimes == {MinutesPerDay, MinutesPerDay + 3, MinutesPerDay + 720,
               MinutesPerDay + MinutesPerDay - 1}

\* release times relative to the cycle's now
ReleaseOffsets == {0 - MinutesPerDay - 60, 0 - 720, 0 - 7, 0 - 6, 0 - 5, 0 - 2,
                   0 - 1, 0, 1, 2, MinutesPerDay}

WindowInputs ==
    {[now |-> n, window_minutes |-> wm,
      ev |-> [id_key |-> "US|CPI|d1", actual |-> a, release_time_utc |-> n + o]] :
        n \in CycleTimes, wm \in {1, 6}, a \in {None, <<"1", ".", "5">>},
        o \in ReleaseOffsets}

InitWindow ==
    /\ SysInit
    /\ fn = "poll_window"
    /\ arg \in WindowInputs
    /\ ret = <<>>

\* lines 231-235 and 244-247 for one row and an empty processed set: the
\* window, the request, the provider's answer for the days asked, and
\* whether the loop lets the row through to interpret_event and the fan-out
CallPollWindow ==
    /\ fn = "poll_window"
    /\ ret = <<>>
    /\ \E has \in BOOLEAN :
         LET start   == arg.now - arg.window_minutes
             end     == arg.now + OneMinute
             params  == calendar_params(start, end, CfgCountry)
             fetched == /\ has
                        /\ DateOf(arg.ev.release_time_utc) >= params.start
                        /\ DateOf(arg.ev.release_time_utc) <= params.end
         IN  ret' = <<[start |-> start, end |-> end, params |-> params,
                       fetched |-> fetched,
                       notified |-> /\ fetched
                                    /\ ~ActualMissing(arg.ev)
                                    /\ ~InFuture(arg.ev, arg.now)]>>
    /\ UNCHANGED <<fn, arg>>
    /\ UNCHANGED sysVars

NextWindow == CallPollWindow

SpecWindow == InitWindow /\ [][NextWindow]_vars

\* C19: the cycle asks for the window from window_minutes before its now
\* to one minute after it, for the configured country, and it notifies
\* only events released inside that window.
C19_OnlyInsideWindow ==
    (fn = "poll_window" /\ ret # <<>>) =>
        /\ ret[1].start = arg.now - arg.window_minutes
        /\ ret[1].end = arg.now + 1
        /\ ret[1].params.country = CfgCountry
        /\ ret[1].notified
              => /\ arg.ev.release_time_utc >= arg.now - arg.window_minutes
                 /\ arg.ev.release_time_utc <= arg.now + 1

=============================================================================
